---- MODULE Spec2Model ----
(***************************************************************************)
(* Closeness centrality of igraph: igraph_closeness_estimate and its       *)
(* weighted engine igraph_i_closeness_estimate_weighted                    *)
(* (src/src/centrality/closeness.c).                                       *)
(*                                                                         *)
(* One behaviour is one call.  The inputs of the call are fixed by Init,   *)
(* the actions are the steps of the two engines: set-up and validation,    *)
(* the start of a per-source iteration, one dequeue / one heap pop with    *)
(* its whole neighbour loop, the end of a per-source iteration, and the    *)
(* final normalisation.  Every step is a pure operator on the record of    *)
(* the call's variables (Mach), so that a whole call can also be run to    *)
(* completion (Run) when a claim compares two calls.                       *)
(*                                                                         *)
(* Numbers.  Path lengths, weights and the cutoff are fixed-point numbers  *)
(* counted in ticks; One is the literal 1.0 and Eps the comparison         *)
(* epsilon, both in ticks.  The code compares only differences of path     *)
(* lengths with Eps (the +1.0 bias cancels), so the model keeps what       *)
(* matters, ticks finer than Eps and Eps <= One, and not the ratio of the  *)
(* two.  Scores are exact rationals [num, den] with the IEEE outcomes of   *)
(* a division by zero: 0/0 is NaN, x/0 is Inf.                             *)
(***************************************************************************)
EXTENDS Integers, Sequences, FiniteSets, TLC

\* ------------------------------------------------------------------ bounds
MaxN == 3          \* vertices of a graph: 1..MaxN
MaxEdges == 2      \* edges of a graph: 0..MaxEdges
MaxVids == 2       \* requested vertices of a call: 0..MaxVids
MaxWeight == 2     \* weights are 0 (rejected), Eps, and 1.0 .. MaxWeight.0
MaxCutoff == 1     \* cutoffs are -1 (none) and 0.0 .. MaxCutoff.0

\* ------------------------------------------------------- program constants
One == 3           \* the literal 1.0, in ticks
Eps == 2           \* IGRAPH_SHORTEST_PATH_EPSILON, in ticks

Modes == {"IGRAPH_OUT", "IGRAPH_IN", "IGRAPH_ALL"}
ModeVals == Modes \cup {"INVALID"}

\* ---------------------------------------------------------------- scores
RECURSIVE GCD(_, _)
GCD(a, b) == IF b = 0 THEN a ELSE GCD(b, a % b)

NaN == [num |-> 0, den |-> 0]
Inf == [num |-> 1, den |-> 0]

\* a / b for integers a, b >= 0, as IEEE division does it
RNorm(a, b) ==
    IF b = 0 THEN (IF a = 0 THEN NaN ELSE Inf)
    ELSE LET g == GCD(a, b) IN [num |-> a \div g, den |-> b \div g]

RInt(k) == [num |-> k, den |-> 1]

RAdd(x, y) ==
    IF x = NaN \/ y = NaN THEN NaN
    ELSE IF x = Inf \/ y = Inf THEN Inf
    ELSE RNorm(x.num * y.den + y.num * x.den, x.den * y.den)

RDiv(x, y) == RNorm(x.num * y.den, x.den * y.num)

\* x <= y as IEEE compares: false when either side is NaN
RLeq(x, y) ==
    /\ x # NaN
    /\ y # NaN
    /\ \/ y = Inf
       \/ x # Inf /\ x.num * y.den <= y.num * x.den

RLess(x, y) == RLeq(x, y) /\ x # y

\* ---------------------------------------------------------------- graphs
Vertices(n) == 0 .. (n - 1)

PairKey(p) == p[1] * MaxN + p[2]

\* A graph is its vertex count and its edge list, edge ids 1 .. ecount.  The
\* engines see a graph only through the neighbour lists of a mode; an
\* undirected graph is traversed as IGRAPH_ALL whatever the mode, so it is
\* the graph of the same edges under IGRAPH_ALL.  Edge lists are enumerated
\* in one order (sorted): every weight vector is tried on each.
EdgeLists(n) ==
    LET pairs == Vertices(n) \X Vertices(n)
    IN  {es \in UNION {[1 .. k -> pairs] : k \in 0 .. MaxEdges} :
            \A k \in 1 .. (Len(es) - 1) : PairKey(es[k]) <= PairKey(es[k + 1])}

Graphs == UNION {{[n |-> n, edges |-> es] : es \in EdgeLists(n)} : n \in 1 .. MaxN}

igraph_ecount(graph) == Len(graph.edges)

IGRAPH_FROM(graph, e) == graph.edges[e][1]

IGRAPH_TO(graph, e) == graph.edges[e][2]

IGRAPH_OTHER(graph, e, v) ==
    IF IGRAPH_TO(graph, e) = v THEN IGRAPH_FROM(graph, e) ELSE IGRAPH_TO(graph, e)

EdgeIds(graph) == [e \in 1 .. igraph_ecount(graph) |-> e]

\* the incident edges of v under mode; with IGRAPH_ALL the out-edges come
\* first, then the in-edges, so a self-loop is listed twice
igraph_lazy_inclist_get(graph, mode, v) ==
    LET out == SelectSeq(EdgeIds(graph), LAMBDA e : IGRAPH_FROM(graph, e) = v)
        inn == SelectSeq(EdgeIds(graph), LAMBDA e : IGRAPH_TO(graph, e) = v)
    IN  IF mode = "IGRAPH_OUT" THEN out
        ELSE IF mode = "IGRAPH_IN" THEN inn
        ELSE out \o inn

igraph_adjlist_get(graph, mode, v) ==
    LET es == igraph_lazy_inclist_get(graph, mode, v)
    IN  [k \in 1 .. Len(es) |-> IGRAPH_OTHER(graph, es[k], v)]

\* ------------------------------------------------------------- the inputs
VidsLists(n) == UNION {[1 .. k -> Vertices(n)] : k \in 0 .. MaxVids}

Cutoffs == {-1} \cup {k * One : k \in 0 .. MaxCutoff}

WeightVals == {0, Eps} \cup {k * One : k \in 1 .. MaxWeight}

NullWeights == [null |-> TRUE, v |-> <<>>]

\* a weight vector of the right length, or of unit weights one entry short
\* or long
WeightVectors(graph) ==
    LET m == igraph_ecount(graph)
    IN  {[null |-> FALSE, v |-> w] :
            w \in [1 .. m -> WeightVals]
                  \cup {[k \in 1 .. len |-> One] : len \in {m + 1} \cup ({m - 1} \cap Nat)}}

\* the content of the caller's result vector before the call
CallerRes == <<RInt(7)>>

VARIABLES
    graph, vids, mode, cutoff, weights, normalized,  \* the arguments
    res,                 \* the caller's result vector
    interrupt,           \* the caller has requested an interruption
    pc, ret, warnings,   \* position, return code, warnings emitted so far
    nodes_to_calc, i, nodes_reached, warning_shown,
    already_counted, q, actdist,                     \* unweighted engine
    Q, dist, which, mindist, minnei,                 \* weighted engine
    begun_pending        \* a per-source iteration began with the request pending

vars == <<graph, vids, mode, cutoff, weights, normalized, res, interrupt, pc,
          ret, warnings, nodes_to_calc, i, nodes_reached, warning_shown,
          already_counted, q, actdist, Q, dist, which, mindist, minnei,
          begun_pending>>

Args == [graph |-> graph, vids |-> vids, mode |-> mode, cutoff |-> cutoff,
         weights |-> weights, normalized |-> normalized]

Mach == [res |-> res, pc |-> pc, ret |-> ret, warnings |-> warnings,
         nodes_to_calc |-> nodes_to_calc, i |-> i,
         nodes_reached |-> nodes_reached, warning_shown |-> warning_shown,
         already_counted |-> already_counted, q |-> q, actdist |-> actdist,
         Q |-> Q, dist |-> dist, which |-> which, mindist |-> mindist,
         minnei |-> minnei, begun_pending |-> begun_pending]

\* the state at the entry of igraph_closeness_estimate
Entry == [res |-> CallerRes, pc |-> "call", ret |-> "none", warnings |-> <<>>,
          nodes_to_calc |-> 0, i |-> 0, nodes_reached |-> 0,
          warning_shown |-> FALSE, already_counted |-> <<>>, q |-> <<>>,
          actdist |-> 0, Q |-> {}, dist |-> <<>>, which |-> <<>>,
          mindist |-> 0, minnei |-> 0, begun_pending |-> FALSE]

Load(m) ==
    /\ res' = m.res
    /\ pc' = m.pc
    /\ ret' = m.ret
    /\ warnings' = m.warnings
    /\ nodes_to_calc' = m.nodes_to_calc
    /\ i' = m.i
    /\ nodes_reached' = m.nodes_reached
    /\ warning_shown' = m.warning_shown
    /\ already_counted' = m.already_counted
    /\ q' = m.q
    /\ actdist' = m.actdist
    /\ Q' = m.Q
    /\ dist' = m.dist
    /\ which' = m.which
    /\ mindist' = m.mindist
    /\ minnei' = m.minnei
    /\ begun_pending' = m.begun_pending

\* IGRAPH_ERROR: the call returns the code; nothing is undone in res
Fail(m, code) == [m EXCEPT !.ret = code, !.pc = "done"]

DisconnectedWarning == "closeness centrality is not well-defined for disconnected graphs"

EpsilonWarning == "Some weights are smaller than epsilon"

\* igraph_vector_resize(res, nodes_to_calc); igraph_vector_null(res)
ResizeNull(k) == [j \in 1 .. k |-> RInt(0)]

\* the penalty counts n - 1, not n, per vertex not reached
Score_PenaltyOffByOne(sum, no_of_nodes, reached) ==
    RDiv(RInt(no_of_nodes - 1),
         RAdd(sum, RInt((no_of_nodes - 1) * (no_of_nodes - reached))))

\* the quotient divides n, not n - 1
Score_NumeratorOffByOne(sum, no_of_nodes, reached) ==
    RDiv(RInt(no_of_nodes),
         RAdd(sum, RInt(no_of_nodes * (no_of_nodes - reached))))

\* lines 214-215 and 388-389: the penalty of the vertices not reached, then
\* the quotient
Score(sum, no_of_nodes, reached) ==
    RDiv(RInt(no_of_nodes - 1),
         RAdd(sum, RInt(no_of_nodes * (no_of_nodes - reached))))

\* lines 224-228 and 398-402
Unnormalize(r, no_of_nodes) ==
    [j \in 1 .. Len(r) |-> RDiv(r[j], RInt(no_of_nodes - 1))]

\* ------------------------------------------------------ unweighted engine
\* lines 332-349
Unweighted_Setup(a, m) ==
    IF a.mode \notin Modes THEN Fail(m, "IGRAPH_EINVMODE")
    ELSE [m EXCEPT !.nodes_to_calc = Len(a.vids),
                   !.already_counted = [v \in Vertices(a.graph.n) |-> 0],
                   !.q = <<>>,
                   !.res = ResizeNull(Len(a.vids)),
                   !.i = 0,
                   !.pc = "u_for"]

\* the source is not counted among the vertices reached
Unweighted_Begin_SourceNotCounted(a, m, intr) ==
    LET source == a.vids[m.i + 1]
        m1 == [m EXCEPT !.q = <<source, 0>>,
                        !.nodes_reached = 0,
                        !.already_counted[source] = m.i + 1,
                        !.begun_pending = m.begun_pending \/ intr]
    IN  IF intr THEN Fail(m1, "IGRAPH_INTERRUPTED")
        ELSE [m1 EXCEPT !.pc = "u_while"]

\* the marker of the source is not set
Unweighted_Begin_SourceNotMarked(a, m, intr) ==
    LET source == a.vids[m.i + 1]
        m1 == [m EXCEPT !.q = <<source, 0>>,
                        !.nodes_reached = 1,
                        !.begun_pending = m.begun_pending \/ intr]
    IN  IF intr THEN Fail(m1, "IGRAPH_INTERRUPTED")
        ELSE [m1 EXCEPT !.pc = "u_while"]

\* lines 354-361; intr is the answer of the interruption poll
Unweighted_Begin(a, m, intr) ==
    LET source == a.vids[m.i + 1]
        m1 == [m EXCEPT !.q = <<source, 0>>,
                        !.nodes_reached = 1,
                        !.already_counted[source] = m.i + 1,
                        !.begun_pending = m.begun_pending \/ intr]
    IN  IF intr THEN Fail(m1, "IGRAPH_INTERRUPTED")
        ELSE [m1 EXCEPT !.pc = "u_while"]

\* lines 376-383, one neighbour
Unweighted_Visit(m, neighbor) ==
    IF m.already_counted[neighbor] = m.i + 1 THEN m
    ELSE [m EXCEPT !.already_counted[neighbor] = m.i + 1,
                   !.nodes_reached = m.nodes_reached + 1,
                   !.q = m.q \o <<neighbor, m.actdist + 1>>]

RECURSIVE Unweighted_Neighbors(_, _, _)
Unweighted_Neighbors(m, neis, j) ==
    IF j > Len(neis) THEN m
    ELSE Unweighted_Neighbors(Unweighted_Visit(m, neis[j]), neis, j + 1)

\* lines 369-371: the vertex just dequeued is not expanded
Unweighted_BeyondCutoff(a, m) == a.cutoff >= 0 /\ m.actdist * One > a.cutoff

\* lines 364-384
Unweighted_Dequeue(a, m) ==
    LET act == m.q[1]
        m1 == [m EXCEPT !.actdist = m.q[2],
                        !.q = SubSeq(m.q, 3, Len(m.q)),
                        !.res[m.i + 1] = RAdd(m.res[m.i + 1], RInt(m.q[2]))]
    IN  IF Unweighted_BeyondCutoff(a, m1) THEN m1
        ELSE Unweighted_Neighbors(m1, igraph_adjlist_get(a.graph, a.mode, act), 1)

\* the last distance is not compared with the cutoff
Unweighted_Disconnected_IgnoreCutoff(a, m) == a.graph.n > m.nodes_reached

\* lines 391-392
Unweighted_Disconnected(a, m) ==
    /\ (a.cutoff >= 0 /\ m.actdist * One <= a.cutoff) \/ a.cutoff < 0
    /\ a.graph.n > m.nodes_reached

\* the warning is emitted for every source that ends short, latch or not
Unweighted_End_NoLatch(a, m) ==
    LET warn == Unweighted_Disconnected(a, m)
    IN  [m EXCEPT !.res[m.i + 1] = Score(m.res[m.i + 1], a.graph.n, m.nodes_reached),
                  !.warnings = IF warn THEN Append(m.warnings, DisconnectedWarning)
                               ELSE m.warnings,
                  !.warning_shown = m.warning_shown \/ warn,
                  !.i = m.i + 1,
                  !.pc = "u_for"]

\* lines 388-395, and the i++ of line 353
Unweighted_End(a, m) ==
    LET warn == Unweighted_Disconnected(a, m) /\ ~m.warning_shown
    IN  [m EXCEPT !.res[m.i + 1] = Score(m.res[m.i + 1], a.graph.n, m.nodes_reached),
                  !.warnings = IF warn THEN Append(m.warnings, DisconnectedWarning)
                               ELSE m.warnings,
                  !.warning_shown = m.warning_shown \/ warn,
                  !.i = m.i + 1,
                  !.pc = "u_for"]

\* lines 398-413
Unweighted_Finish(a, m) ==
    [m EXCEPT !.res = IF a.normalized THEN m.res ELSE Unnormalize(m.res, a.graph.n),
              !.ret = "IGRAPH_SUCCESS",
              !.pc = "done"]

\* -------------------------------------------------------- weighted engine
\* the epsilon-tolerant comparison: a difference below eps is a tie
igraph_cmp_epsilon(a, b, eps) ==
    LET diff == a - b
        abs_diff == IF diff < 0 THEN -diff ELSE diff
    IN  IF abs_diff < eps THEN 0 ELSE IF diff < 0 THEN -1 ELSE 1

\* what igraph_vector_min can return: the least entry, or, for an empty
\* vector, whatever the storage holds (one value of each kind the caller
\* tells apart: rejected, below Eps, above Eps)
igraph_vector_min(w) ==
    IF w = <<>> THEN {0, 1, Eps + 1}
    ELSE {CHOOSE x \in {w[k] : k \in 1 .. Len(w)} :
              \A k \in 1 .. Len(w) : x <= w[k]}

\* the mode check of igraph_lazy_inclist_init
igraph_lazy_inclist_init(neimode) ==
    IF neimode \in Modes THEN "IGRAPH_SUCCESS" ELSE "IGRAPH_EINVMODE"

\* the two-way indexed heap, as the set of its <<index, key>> entries
igraph_2wheap_push_with_index(heap, idx, elem) == heap \cup {<<idx, elem>>}

igraph_2wheap_modify(heap, idx, elem) ==
    IF \E p \in heap : p[1] = idx
    THEN {p \in heap : p[1] # idx} \cup {<<idx, elem>>}
    ELSE heap

igraph_2wheap_max(heap) ==
    CHOOSE k \in {p[2] : p \in heap} : \A p \in heap : p[2] <= k

\* the indices igraph_2wheap_max_index can return: entries of equal key are
\* ordered by the heap's layout
igraph_2wheap_max_index(heap) ==
    {p[1] : p \in {r \in heap : r[2] = igraph_2wheap_max(heap)}}

\* the result vector is resized and zeroed before the weights are validated
Weighted_Setup_ResizeFirst(a, m, minweight) ==
    LET m0 == [m EXCEPT !.res = ResizeNull(Len(a.vids))]
    IN  IF Len(a.weights.v) # igraph_ecount(a.graph) THEN Fail(m0, "IGRAPH_EINVAL")
        ELSE IF minweight <= 0 THEN Fail(m0, "IGRAPH_EINVAL")
        ELSE IF igraph_lazy_inclist_init(a.mode) # "IGRAPH_SUCCESS"
        THEN Fail(m0, igraph_lazy_inclist_init(a.mode))
        ELSE [m0 EXCEPT !.warnings = IF minweight <= Eps
                                     THEN Append(m.warnings, EpsilonWarning)
                                     ELSE m.warnings,
                        !.nodes_to_calc = Len(a.vids),
                        !.Q = {},
                        !.dist = [v \in Vertices(a.graph.n) |-> 0],
                        !.which = [v \in Vertices(a.graph.n) |-> 0],
                        !.i = 0,
                        !.pc = "w_for"]

\* lines 135-161; minweight is the value igraph_vector_min returned
Weighted_Setup(a, m, minweight) ==
    IF Len(a.weights.v) # igraph_ecount(a.graph) THEN Fail(m, "IGRAPH_EINVAL")
    ELSE IF minweight <= 0 THEN Fail(m, "IGRAPH_EINVAL")
    ELSE LET m1 == [m EXCEPT !.warnings =
                        IF minweight <= Eps THEN Append(m.warnings, EpsilonWarning)
                        ELSE m.warnings]
         IN  IF igraph_lazy_inclist_init(a.mode) # "IGRAPH_SUCCESS"
             THEN Fail(m1, igraph_lazy_inclist_init(a.mode))
             ELSE [m1 EXCEPT !.nodes_to_calc = Len(a.vids),
                             !.Q = {},
                             !.dist = [v \in Vertices(a.graph.n) |-> 0],
                             !.which = [v \in Vertices(a.graph.n) |-> 0],
                             !.res = ResizeNull(Len(a.vids)),
                             !.i = 0,
                             !.pc = "w_for"]

\* the marker of the source is not set
Weighted_Begin_SourceNotMarked(a, m, intr) ==
    LET source == a.vids[m.i + 1]
    IN  [m EXCEPT !.Q = igraph_2wheap_push_with_index({}, source, -One),
                  !.dist[source] = One,
                  !.nodes_reached = 0,
                  !.begun_pending = m.begun_pending \/ intr,
                  !.pc = "w_while"]

\* lines 165-170; the interruption is not polled, intr only records that the
\* request was pending
Weighted_Begin(a, m, intr) ==
    LET source == a.vids[m.i + 1]
    IN  [m EXCEPT !.Q = igraph_2wheap_push_with_index({}, source, -One),
                  !.which[source] = m.i + 1,
                  !.dist[source] = One,
                  !.nodes_reached = 0,
                  !.begun_pending = m.begun_pending \/ intr,
                  !.pc = "w_while"]

\* a shorter path to a vertex already in the heap is ignored
Weighted_Relax_NoDecreaseKey(a, m, edge) ==
    LET to == IGRAPH_OTHER(a.graph, edge, m.minnei)
        altdist == m.mindist + a.weights.v[edge]
    IN  IF m.which[to] # m.i + 1
        THEN [m EXCEPT !.which[to] = m.i + 1,
                       !.dist[to] = altdist,
                       !.Q = igraph_2wheap_push_with_index(m.Q, to, -altdist)]
        ELSE m

\* lines 188-208, one incident edge of minnei
Weighted_Relax(a, m, edge) ==
    LET to == IGRAPH_OTHER(a.graph, edge, m.minnei)
        altdist == m.mindist + a.weights.v[edge]
        curdist == m.dist[to]
        cmp_result == IF curdist = 0 THEN -1
                      ELSE igraph_cmp_epsilon(altdist, curdist, Eps)
    IN  IF m.which[to] # m.i + 1
        THEN [m EXCEPT !.which[to] = m.i + 1,
                       !.dist[to] = altdist,
                       !.Q = igraph_2wheap_push_with_index(m.Q, to, -altdist)]
        ELSE IF cmp_result < 0
        THEN [m EXCEPT !.dist[to] = altdist,
                       !.Q = igraph_2wheap_modify(m.Q, to, -altdist)]
        ELSE m

RECURSIVE Weighted_Neighbors(_, _, _, _)
Weighted_Neighbors(a, m, neis, j) ==
    IF j > Len(neis) THEN m
    ELSE Weighted_Neighbors(a, Weighted_Relax(a, m, neis[j]), neis, j + 1)

\* the bias of the popped distance is forgotten in the comparison
Weighted_BeyondCutoff_NoBias(a, m) == a.cutoff >= 0 /\ m.mindist > a.cutoff

\* lines 183-185: the vertex just popped is not expanded
Weighted_BeyondCutoff(a, m) == a.cutoff >= 0 /\ m.mindist > a.cutoff + One

\* lines 173-181: the maximum is taken out of the heap and counted
Weighted_DeleteMax(m, idx) ==
    LET key == igraph_2wheap_max(m.Q)
    IN  [m EXCEPT !.minnei = idx,
                  !.mindist = -key,
                  !.Q = m.Q \ {<<idx, key>>},
                  !.res[m.i + 1] = RAdd(m.res[m.i + 1], RNorm((-key) - One, One)),
                  !.nodes_reached = m.nodes_reached + 1]

\* lines 173-209; idx is the index igraph_2wheap_max_index returned
Weighted_Pop(a, m, idx) ==
    LET m1 == Weighted_DeleteMax(m, idx)
    IN  IF Weighted_BeyondCutoff(a, m1) THEN m1
        ELSE Weighted_Neighbors(a, m1, igraph_lazy_inclist_get(a.graph, a.mode, idx), 1)

\* lines 217-218
Weighted_Disconnected(a, m) ==
    /\ (a.cutoff >= 0 /\ m.mindist <= a.cutoff + One) \/ a.cutoff < 0
    /\ m.nodes_reached < a.graph.n

\* lines 214-221, and the i++ of line 163
Weighted_End(a, m) ==
    LET warn == Weighted_Disconnected(a, m) /\ ~m.warning_shown
    IN  [m EXCEPT !.res[m.i + 1] = Score(m.res[m.i + 1], a.graph.n, m.nodes_reached),
                  !.warnings = IF warn THEN Append(m.warnings, DisconnectedWarning)
                               ELSE m.warnings,
                  !.warning_shown = m.warning_shown \/ warn,
                  !.i = m.i + 1,
                  !.pc = "w_for"]

\* lines 224-237
Weighted_Finish(a, m) ==
    [m EXCEPT !.res = IF a.normalized THEN m.res ELSE Unnormalize(m.res, a.graph.n),
              !.ret = "IGRAPH_SUCCESS",
              !.pc = "done"]

\* ------------------------------------------------------------ whole calls
\* lines 327-330: the dispatch on the weight vector
UseWeighted(a) == ~a.weights.null

\* one step of a call nobody interrupts (ties of the heap and the minimum of
\* an empty vector resolved one way)
Step(a, m) ==
    CASE m.pc = "call" ->
            IF UseWeighted(a)
            THEN Weighted_Setup(a, m, CHOOSE x \in igraph_vector_min(a.weights.v) : TRUE)
            ELSE Unweighted_Setup(a, m)
      [] m.pc = "u_for" ->
            IF m.i < m.nodes_to_calc THEN Unweighted_Begin(a, m, FALSE)
            ELSE Unweighted_Finish(a, m)
      [] m.pc = "u_while" ->
            IF m.q # <<>> THEN Unweighted_Dequeue(a, m) ELSE Unweighted_End(a, m)
      [] m.pc = "w_for" ->
            IF m.i < m.nodes_to_calc THEN Weighted_Begin(a, m, FALSE)
            ELSE Weighted_Finish(a, m)
      [] m.pc = "w_while" ->
            IF m.Q # {}
            THEN Weighted_Pop(a, m, CHOOSE x \in igraph_2wheap_max_index(m.Q) : TRUE)
            ELSE Weighted_End(a, m)
      [] OTHER -> m

RECURSIVE Run(_, _)
Run(a, m) == IF m.pc = "done" THEN m ELSE Run(a, Step(a, m))

\* igraph_closeness_estimate(graph, res, vids, mode, cutoff, weights, normalized)
igraph_closeness_estimate(a) == Run(a, Entry)

\* igraph_closeness, lines 94-100
igraph_closeness(a) == igraph_closeness_estimate([a EXCEPT !.cutoff = -1])

\* ----------------------------------------------------------- the machine
Init ==
    /\ graph \in Graphs
    /\ vids \in VidsLists(graph.n)
    /\ mode \in ModeVals
    /\ cutoff \in Cutoffs
    /\ weights \in {NullWeights} \cup WeightVectors(graph)
    /\ normalized \in BOOLEAN
    /\ interrupt = FALSE
    /\ res = Entry.res
    /\ pc = Entry.pc
    /\ ret = Entry.ret
    /\ warnings = Entry.warnings
    /\ nodes_to_calc = Entry.nodes_to_calc
    /\ i = Entry.i
    /\ nodes_reached = Entry.nodes_reached
    /\ warning_shown = Entry.warning_shown
    /\ already_counted = Entry.already_counted
    /\ q = Entry.q
    /\ actdist = Entry.actdist
    /\ Q = Entry.Q
    /\ dist = Entry.dist
    /\ which = Entry.which
    /\ mindist = Entry.mindist
    /\ minnei = Entry.minnei
    /\ begun_pending = Entry.begun_pending

UnchangedArgs == UNCHANGED <<graph, vids, mode, cutoff, weights, normalized, interrupt>>

\* the caller asks for the interruption of the running call
RequestInterrupt ==
    /\ pc # "done"
    /\ ~interrupt
    /\ interrupt' = TRUE
    /\ UNCHANGED <<graph, vids, mode, cutoff, weights, normalized, res, pc,
                   ret, warnings, nodes_to_calc, i, nodes_reached,
                   warning_shown, already_counted, q, actdist, Q, dist,
                   which, mindist, minnei, begun_pending>>

UnweightedSetup ==
    /\ pc = "call"
    /\ ~UseWeighted(Args)
    /\ Load(Unweighted_Setup(Args, Mach))
    /\ UnchangedArgs

UnweightedBegin ==
    /\ pc = "u_for"
    /\ i < nodes_to_calc
    /\ Load(Unweighted_Begin(Args, Mach, interrupt))
    /\ UnchangedArgs

UnweightedDequeue ==
    /\ pc = "u_while"
    /\ q # <<>>
    /\ Load(Unweighted_Dequeue(Args, Mach))
    /\ UnchangedArgs

UnweightedEnd ==
    /\ pc = "u_while"
    /\ q = <<>>
    /\ Load(Unweighted_End(Args, Mach))
    /\ UnchangedArgs

UnweightedFinish ==
    /\ pc = "u_for"
    /\ i >= nodes_to_calc
    /\ Load(Unweighted_Finish(Args, Mach))
    /\ UnchangedArgs

WeightedSetup ==
    /\ pc = "call"
    /\ UseWeighted(Args)
    /\ \E minweight \in igraph_vector_min(weights.v) :
           Load(Weighted_Setup(Args, Mach, minweight))
    /\ UnchangedArgs

WeightedBegin ==
    /\ pc = "w_for"
    /\ i < nodes_to_calc
    /\ Load(Weighted_Begin(Args, Mach, interrupt))
    /\ UnchangedArgs

WeightedPop ==
    /\ pc = "w_while"
    /\ Q # {}
    /\ \E idx \in igraph_2wheap_max_index(Q) :
           Load(Weighted_Pop(Args, Mach, idx))
    /\ UnchangedArgs

WeightedEnd ==
    /\ pc = "w_while"
    /\ Q = {}
    /\ Load(Weighted_End(Args, Mach))
    /\ UnchangedArgs

WeightedFinish ==
    /\ pc = "w_for"
    /\ i >= nodes_to_calc
    /\ Load(Weighted_Finish(Args, Mach))
    /\ UnchangedArgs

Next ==
    \/ UnweightedSetup
    \/ UnweightedBegin
    \/ UnweightedDequeue
    \/ UnweightedEnd
    \/ UnweightedFinish
    \/ WeightedSetup
    \/ WeightedBegin
    \/ WeightedPop
    \/ WeightedEnd
    \/ WeightedFinish

\* a call the caller never interrupts
Spec == Init /\ [][Next]_vars

NextInterruptible ==
    \/ RequestInterrupt
    \/ Next

\* a call the caller may ask to interrupt at any moment
SpecInterruptible == Init /\ [][NextInterruptible]_vars

\* ----------------------------------------- distances, stated independently
\* the vertices one edge away from v under a mode
Succ(g, md, v) ==
    {w \in Vertices(g.n) :
        \E e \in 1 .. Len(g.edges) :
            \/ md \in {"IGRAPH_OUT", "IGRAPH_ALL"} /\ g.edges[e] = <<v, w>>
            \/ md \in {"IGRAPH_IN", "IGRAPH_ALL"} /\ g.edges[e] = <<w, v>>}

\* the vertices at most k edges away from s
RECURSIVE Ball(_, _, _, _)
Ball(g, md, s, k) ==
    IF k = 0 THEN {s}
    ELSE LET b == Ball(g, md, s, k - 1)
         IN  b \cup UNION {Succ(g, md, v) : v \in b}

Reachable(g, md, s) == Ball(g, md, s, g.n)

\* the hop distance from s to a reachable v
HopDist(g, md, s, v) ==
    CHOOSE k \in 0 .. g.n : v \in Ball(g, md, s, k) /\ (k = 0 \/ v \notin Ball(g, md, s, k - 1))

RECURSIVE SumOver(_, _)
SumOver(f, S) ==
    IF S = {} THEN 0
    ELSE LET x == CHOOSE y \in S : TRUE IN f[x] + SumOver(f, S \ {x})

\* sum of the hop distances of the vertices within maxhops of s (all the
\* reachable ones when maxhops < 0), plus n for every other vertex
HopSum(g, md, s, maxhops) ==
    LET counted == {v \in Reachable(g, md, s) :
                        maxhops < 0 \/ HopDist(g, md, s, v) <= maxhops}
    IN  SumOver([v \in counted |-> HopDist(g, md, s, v)], counted)
        + g.n * (g.n - Cardinality(counted))

\* longer than any path
Unreached == MaxN * (MaxWeight + 1) * One + 1

MinOf(S) == CHOOSE x \in S : \A y \in S : x <= y

\* the least weight, in ticks, of a path of at most k edges from s to v
RECURSIVE PathDist(_, _, _, _, _, _)
PathDist(g, md, w, s, v, k) ==
    IF k = 0 THEN (IF v = s THEN 0 ELSE Unreached)
    ELSE MinOf({PathDist(g, md, w, s, v, k - 1)} \cup
               {PathDist(g, md, w, s, IGRAPH_OTHER(g, e, v), k - 1) + w[e] :
                    e \in {x \in 1 .. Len(g.edges) :
                             \/ md \in {"IGRAPH_OUT", "IGRAPH_ALL"} /\ IGRAPH_TO(g, x) = v
                             \/ md \in {"IGRAPH_IN", "IGRAPH_ALL"} /\ IGRAPH_FROM(g, x) = v}})

\* the minimum-weight path distance from s to v, in ticks
TrueDist(g, md, w, s, v) == PathDist(g, md, w, s, v, g.n - 1)

\* sum of the weighted distances of the reachable vertices, as a number, plus
\* n for every other vertex
WeightedSum(g, md, w, s) ==
    LET reached == Reachable(g, md, s)
    IN  RAdd(RNorm(SumOver([v \in reached |-> TrueDist(g, md, w, s, v)], reached), One),
             RInt(g.n * (g.n - Cardinality(reached))))

Succeeded == pc = "done" /\ ret = "IGRAPH_SUCCESS"

\* ---------------------------------------------------------------------- C1
C1_Case == Succeeded /\ weights.null /\ cutoff < 0

C1_Expected(j) ==
    LET S == RInt(HopSum(graph, mode, vids[j], -1))
    IN  IF normalized THEN RDiv(RInt(graph.n - 1), S) ELSE RDiv(RInt(1), S)

\* C1 as stated: without weights and cutoff the result has one entry per
\* requested vertex, in order, equal to (n-1)/S when normalized and 1/S when
\* not, S the sum of the hop distances plus n per unreachable vertex.
C1_AsStated ==
    C1_Case => /\ Len(res) = Len(vids)
               /\ \A j \in 1 .. Len(vids) : res[j] = C1_Expected(j)

\* C1 amended: the same for graphs of two or more vertices; on the graph of
\* one vertex S = 0 and the entry is NaN whether normalized or not.
C1_ScoreOfHopSum ==
    C1_Case => /\ Len(res) = Len(vids)
               /\ \A j \in 1 .. Len(vids) :
                      res[j] = IF graph.n >= 2 THEN C1_Expected(j) ELSE NaN

C1_Witness ==
    /\ C1_Case
    /\ graph.n = 3
    /\ Len(vids) = 2
    /\ vids[1] # vids[2]
    /\ Reachable(graph, mode, vids[1]) = Vertices(3)
    /\ Reachable(graph, mode, vids[2]) # Vertices(3)
    /\ ~normalized

\* ---------------------------------------------------------------------- C2
WeightedRun == ~weights.null /\ pc \in {"w_for", "w_while", "done"} /\ ret # "IGRAPH_EINVAL"
    /\ ret # "IGRAPH_EINVMODE"

\* a vertex has just been popped for the source vids[i + 1]
C2_Popped == WeightedRun /\ cutoff < 0 /\ pc = "w_while" /\ nodes_reached > 0

C2_PoppedTrueDist ==
    TrueDist(graph, mode, weights.v, vids[i + 1], minnei)

\* all weights are whole multiples of one unit that is at least Eps
OnEpsGrid(w) ==
    \E u \in Eps .. (MaxWeight + 1) * One : \A k \in 1 .. Len(w) : w[k] % u = 0

\* C2 as stated: with positive weights and no cutoff, the distance popped
\* (key minus the bias) is the true minimum-weight distance of the vertex, and
\* the normalized score is (n-1) / (sum of true distances + n per unreached).
C2_AsStated ==
    /\ C2_Popped => mindist - One = C2_PoppedTrueDist
    /\ Succeeded /\ ~weights.null /\ cutoff < 0 /\ normalized =>
           \A j \in 1 .. Len(vids) :
               res[j] = RDiv(RInt(graph.n - 1),
                             WeightedSum(graph, mode, weights.v, vids[j]))

\* C2 amended: the distance popped is never below the true distance, and is
\* the true distance (and the score the one of the true distances) when all
\* weights are whole multiples of one unit that is at least the epsilon; two
\* path lengths closer than the epsilon are a tie and the longer may be kept.
C2_TrueDistOnGrid ==
    /\ C2_Popped => /\ mindist - One >= C2_PoppedTrueDist
                    /\ OnEpsGrid(weights.v) => mindist - One = C2_PoppedTrueDist
    /\ Succeeded /\ ~weights.null /\ cutoff < 0 /\ normalized /\ OnEpsGrid(weights.v) =>
           \A j \in 1 .. Len(vids) :
               res[j] = RDiv(RInt(graph.n - 1),
                             WeightedSum(graph, mode, weights.v, vids[j]))

\* a key was decreased: the source has two parallel edges to the vertex
\* popped, the heavier one first, and the lighter one is the distance popped
C2_Witness ==
    /\ C2_Popped
    /\ OnEpsGrid(weights.v)
    /\ mode = "IGRAPH_OUT"
    /\ Len(graph.edges) = 2
    /\ graph.edges[1] = <<vids[i + 1], minnei>>
    /\ graph.edges[2] = <<vids[i + 1], minnei>>
    /\ minnei # vids[i + 1]
    /\ weights.v[1] > weights.v[2]
    /\ mindist - One = weights.v[2]

\* ---------------------------------------------------------------------- C3
UnitWeights == [null |-> FALSE, v |-> [k \in 1 .. Len(graph.edges) |-> One]]

C3_Case == pc = "done" /\ Len(graph.edges) >= 1 /\ weights = UnitWeights

Warned(ws, text) == \E k \in 1 .. Len(ws) : ws[k] = text

\* C3: on a graph with an edge, the call with all weights 1 ends as the call
\* without weights on the same arguments does: same return code, same result
\* vector, same disconnection warning or none.
C3_EnginesAgree ==
    C3_Case =>
        LET u == igraph_closeness_estimate([Args EXCEPT !.weights = NullWeights])
        IN  /\ ret = u.ret
            /\ res = u.res
            /\ Warned(warnings, DisconnectedWarning) <=> Warned(u.warnings, DisconnectedWarning)

C3_Witness ==
    /\ C3_Case
    /\ Succeeded
    /\ graph.n = 3
    /\ Len(graph.edges) = 2
    /\ cutoff = 0
    /\ mode = "IGRAPH_ALL"
    /\ Len(vids) = 2
    /\ \A j \in 1 .. 2 : Reachable(graph, mode, vids[j]) = Vertices(3)
    /\ res[1] # res[2]

\* ---------------------------------------------------------------------- C4
\* the queue of the current source has just been drained
C4_Case == weights.null /\ cutoff >= 0 /\ pc = "u_while" /\ q = <<>>

\* C4 as stated: with a cutoff c >= 0 the raw sum of a source is the sum of
\* the hop distances of the vertices within c, plus n for every other vertex.
C4_AsStated ==
    C4_Case =>
        RAdd(res[i + 1], RInt(graph.n * (graph.n - nodes_reached)))
            = RInt(HopSum(graph, mode, vids[i + 1], cutoff \div One))

\* ---------------------------------------------------------------------- C5
\* C5 as stated (on graphs of two or more vertices, where the scores are
\* numbers): with a cutoff >= 0 no score exceeds the score igraph_closeness
\* gives for the same arguments.
C5_AsStated ==
    Succeeded /\ cutoff >= 0 /\ graph.n >= 2 /\ (weights.null \/ Len(graph.edges) >= 1) =>
        \A j \in 1 .. Len(vids) : RLeq(res[j], igraph_closeness(Args).res[j])

\* ---------------------------------------------------------------------- C6
\* every requested vertex reaches all the vertices
C6_Case ==
    /\ Succeeded
    /\ cutoff < 0
    /\ normalized
    /\ \A j \in 1 .. Len(vids) : Reachable(graph, mode, vids[j]) = Vertices(graph.n)

\* C6 as stated (on graphs of two or more vertices; on one vertex the score
\* is NaN): on a connected graph, with or without weights, without cutoff,
\* every normalized score is above 0 and at most 1.
C6_AsStated ==
    C6_Case /\ graph.n >= 2 =>
        \A j \in 1 .. Len(vids) : RLess(RInt(0), res[j]) /\ RLeq(res[j], RInt(1))

\* C6 amended: on a connected graph of two or more vertices, without cutoff,
\* every normalized score is a number above 0; it is at most 1 when there
\* are no weights or no weight is below 1.
C6_ScoreRange ==
    C6_Case /\ graph.n >= 2 =>
        \A j \in 1 .. Len(vids) :
            /\ RLess(RInt(0), res[j])
            /\ res[j] # Inf
            /\ (weights.null \/ \A k \in 1 .. Len(weights.v) : weights.v[k] >= One)
                   => RLeq(res[j], RInt(1))

C6_Witness ==
    /\ C6_Case
    /\ graph.n = 3
    /\ ~weights.null
    /\ weights.v = <<One, One>>
    /\ Len(vids) = 2
    /\ res[1] = RInt(1)
    /\ RLess(res[2], RInt(1))

\* ---------------------------------------------------------------------- C7
\* C7 as stated (on graphs with an edge, where the minimum of the weights
\* is defined): a call with a mode that is none of OUT, IN, ALL fails with
\* IGRAPH_EINVMODE, whatever the weights.
C7_AsStated ==
    pc = "done" /\ mode \notin Modes /\ Len(graph.edges) >= 1 => ret = "IGRAPH_EINVMODE"

\* ---------------------------------------------------------------------- C8
BadWeights ==
    /\ ~weights.null
    /\ \/ Len(weights.v) # Len(graph.edges)
       \/ \E k \in 1 .. Len(weights.v) : weights.v[k] <= 0

UsageError == ret \in {"IGRAPH_EINVAL", "IGRAPH_EINVMODE"}

\* C8: a weight vector of the wrong length or with an entry <= 0 fails with
\* IGRAPH_EINVAL; and a call that fails with a usage error has traversed no
\* source and has left the caller's result vector as it was.
C8_FailFast ==
    /\ pc = "done" /\ BadWeights => ret = "IGRAPH_EINVAL"
    /\ UsageError => /\ pc = "done"
                     /\ res = CallerRes
                     /\ i = 0
                     /\ nodes_reached = 0
                     /\ q = <<>>
                     /\ Q = {}

C8_Witness ==
    /\ pc = "done"
    /\ BadWeights
    /\ Len(weights.v) = Len(graph.edges)
    /\ mode \notin Modes
    /\ Len(vids) = 2
    /\ ret = "IGRAPH_EINVAL"

\* ---------------------------------------------------------------------- C9
\* C9 as stated (on graphs with an edge): a call in which an iteration of a
\* source began while the caller's interruption request was pending ends
\* with IGRAPH_INTERRUPTED.
C9_AsStated ==
    pc = "done" /\ begun_pending /\ Len(graph.edges) >= 1 => ret = "IGRAPH_INTERRUPTED"

\* --------------------------------------------------------------------- C10
\* C10 as stated: after a call interrupted when one source or more were
\* completed, the caller's result vector holds nothing the call wrote.
C10_AsStated ==
    pc = "done" /\ ret = "IGRAPH_INTERRUPTED" /\ i >= 1 => res = CallerRes

\* --------------------------------------------------------------------- C11
\* how many times a warning was emitted
Emitted(ws, text) == Cardinality({k \in 1 .. Len(ws) : ws[k] = text})

\* the graph is made of two components of n/2 vertices each, no edge between
\* the two
TwoHalves(g) ==
    /\ g.n % 2 = 0
    /\ \A v \in Vertices(g.n) :
           Cardinality(Reachable(g, "IGRAPH_ALL", v)) = g.n \div 2

C11_Case ==
    /\ Succeeded
    /\ cutoff < 0
    /\ Len(vids) >= 1
    /\ TwoHalves(graph)

\* C11: on a graph of two components of equal size, a successful call without
\* cutoff on one source or more emits the disconnection warning exactly once,
\* in both engines; and no call, at any point, has emitted it more than once
\* (the latch warning_shown is set exactly when it was emitted).
C11_WarningLatched ==
    /\ C11_Case => Emitted(warnings, DisconnectedWarning) = 1
    /\ Emitted(warnings, DisconnectedWarning) <= 1
    /\ warning_shown <=> Emitted(warnings, DisconnectedWarning) = 1

\* two sources, the second first, each short of the other component
C11_Witness ==
    /\ C11_Case
    /\ vids = <<1, 0>>
    /\ Len(graph.edges) = 2
    /\ ~weights.null
    /\ Emitted(warnings, DisconnectedWarning) = 1
    /\ warning_shown

\* --------------------------------------------------------------------- C12
\* the unweighted engine on the graph of one vertex, under a valid mode
C12_Case == graph.n = 1 /\ weights.null /\ mode \in Modes

\* C12: on a graph of one vertex, without weights, for every mode of OUT, IN,
\* ALL, every cutoff and either normalization flag, the call succeeds without
\* any warning, the raw distance sum of the vertex is 0 with the vertex itself
\* the only one reached, and every score is 0/0, not-a-number.
C12_SingleVertexNaN ==
    /\ C12_Case /\ pc = "done" =>
           /\ ret = "IGRAPH_SUCCESS"
           /\ warnings = <<>>
           /\ Len(res) = Len(vids)
           /\ \A j \in 1 .. Len(vids) : res[j] = NaN
    /\ C12_Case /\ pc = "u_while" /\ q = <<>> =>
           /\ res[i + 1] = RInt(0)
           /\ nodes_reached = 1

\* the vertex has self-loops and is requested twice, with a cutoff
C12_Witness ==
    /\ C12_Case
    /\ pc = "done"
    /\ graph.edges = <<<<0, 0>>, <<0, 0>>>>
    /\ mode = "IGRAPH_ALL"
    /\ cutoff = 0
    /\ ~normalized
    /\ res = <<NaN, NaN>>

\* --------------------------------------------------------------------- C13
\* the vertices whose marker is the one of the current source
Marked == {v \in Vertices(graph.n) : already_counted[v] = i + 1}

\* the vertices of the <<vertex, distance>> pairs of a queue
InQueue(pairs) == {pairs[2 * k - 1] : k \in 1 .. (Len(pairs) \div 2)}

C13_Iterating == weights.null /\ pc = "u_while"

\* within a source: the marked vertices are counted once each, and the queue
\* holds marked vertices only, none twice; after the call: every score is the
\* one of a call on that vertex alone
C13_State ==
    /\ C13_Iterating =>
           /\ InQueue(q) \subseteq Marked
           /\ Cardinality(InQueue(q)) = Len(q) \div 2
           /\ nodes_reached = Cardinality(Marked)
           /\ nodes_reached <= graph.n
    /\ Succeeded /\ weights.null =>
           \A j \in 1 .. Len(vids) :
               res[j] = igraph_closeness_estimate([Args EXCEPT !.vids = <<vids[j]>>]).res[1]

\* a source begins with itself alone marked and enqueued; a dequeue enqueues
\* vertices that were not marked, each once, and marks exactly these
C13_Step ==
    /\ weights.null /\ pc = "u_for" /\ pc' = "u_while" =>
           /\ q' = <<vids[i + 1], 0>>
           /\ Marked' = {vids[i + 1]}
    /\ C13_Iterating /\ q # <<>> =>
           LET new == SubSeq(q', Len(q) - 1, Len(q'))
           IN  /\ SubSeq(q', 1, Len(q) - 2) = SubSeq(q, 3, Len(q))
               /\ InQueue(new) \cap Marked = {}
               /\ Cardinality(InQueue(new)) = Len(new) \div 2
               /\ Marked' = Marked \cup InQueue(new)
               /\ nodes_reached' = nodes_reached + Len(new) \div 2
               /\ \E d \in 0 .. graph.n : res'[i + 1] = RAdd(res[i + 1], RInt(d))

\* C13: in the unweighted engine, during the iteration of source i, the
\* vertices with already_counted = i+1 are exactly the vertices enqueued for
\* this source (the source at its start, then the vertices each dequeue
\* enqueues), each enqueued once and dequeued into the sum once, so
\* nodes_reached never exceeds n; and, the markers never being reset, the
\* score of a vertex is the one a call on that vertex alone gives.
C13_MarkerReuse == [](C13_State) /\ [][C13_Step]_vars

\* the second of two requests of one vertex, on mutual edges under ALL: the
\* markers the first left are stale, and both vertices were reached again
C13_Witness ==
    /\ C13_Iterating
    /\ i = 1
    /\ vids[1] = vids[2]
    /\ mode = "IGRAPH_ALL"
    /\ graph.n = 2
    /\ graph.edges = <<<<0, 1>>, <<1, 0>>>>
    /\ q = <<>>
    /\ nodes_reached = 2
    /\ Marked = {0, 1}

\* --------------------------------------------------------------------- C14
\* the traversal of the current source has ended: its queue or heap is empty
C14_AtEnd ==
    \/ weights.null /\ pc = "u_while" /\ q = <<>>
    \/ ~weights.null /\ pc = "w_while" /\ Q = {}

\* the distance last dequeued or popped, in ticks
C14_LastDist == IF weights.null THEN actdist * One ELSE mindist - One

\* the traversal reached fewer than n vertices, and its last distance did not
\* exceed the cutoff
C14_ShortNotByCutoff ==
    /\ nodes_reached < graph.n
    /\ cutoff < 0 \/ C14_LastDist <= cutoff

\* a vertex counted for the current source lies beyond the cutoff
C14_Truncated ==
    /\ cutoff >= 0
    /\ IF weights.null
       THEN \E v \in Marked : HopDist(graph, mode, vids[i + 1], v) * One > cutoff
       ELSE \E v \in Vertices(graph.n) : which[v] = i + 1 /\ dist[v] - One > cutoff

\* the distance of v from s, in ticks, in the engine of the call
C14_Dist(s, v) ==
    IF weights.null THEN HopDist(graph, mode, s, v) * One
    ELSE TrueDist(graph, mode, weights.v, s, v)

\* s cannot reach every vertex, and nothing it can reach is beyond the cutoff
C14_SourceShort(s) ==
    /\ Reachable(graph, mode, s) # Vertices(graph.n)
    /\ cutoff < 0 \/ \A v \in Reachable(graph, mode, s) : C14_Dist(s, v) <= cutoff

C14_State ==
    Succeeded =>
        /\ Warned(warnings, DisconnectedWarning)
               <=> \E j \in 1 .. Len(vids) : C14_SourceShort(vids[j])
        /\ (\A j \in 1 .. Len(vids) : Reachable(graph, mode, vids[j]) = Vertices(graph.n))
               => ~Warned(warnings, DisconnectedWarning)

C14_Step ==
    C14_AtEnd =>
        /\ warning_shown' <=> warning_shown \/ C14_ShortNotByCutoff
        /\ C14_ShortNotByCutoff <=> C14_SourceShort(vids[i + 1])
        /\ C14_Truncated => ~C14_ShortNotByCutoff /\ warnings' = warnings

\* C14: in both engines the disconnection warning is emitted exactly when the
\* traversal of some requested source ends having reached fewer than n
\* vertices with its last dequeued or popped distance not beyond the cutoff
\* (or without cutoff), which is when the source cannot reach every vertex
\* and nothing it reaches is beyond the cutoff; so a call whose sources all
\* reach every vertex never warns, whatever the cutoff, and a traversal that
\* counted a vertex beyond the cutoff does not warn for its source.
C14_WarningIffShort == [](C14_State) /\ [][C14_Step]_vars

\* a traversal cut by the cutoff on a graph that is not connected: vertex 2
\* is isolated, vertex 1 was counted beyond the cutoff, and nothing is warned
C14_Witness ==
    /\ Succeeded
    /\ ~weights.null
    /\ graph.n = 3
    /\ graph.edges = <<<<0, 1>>>>
    /\ mode = "IGRAPH_OUT"
    /\ vids = <<0>>
    /\ cutoff = 0
    /\ ~Warned(warnings, DisconnectedWarning)

\* --------------------------------------------------------------------- C15
\* the vertices that have an entry in the heap
HeapIdx(heap) == {p[1] : p \in heap}

\* the vertices whose marker is the one of the current source
WMarked == {v \in Vertices(graph.n) : which[v] = i + 1}

\* a traversal of the weighted engine, on weights that passed the validation
C15_Iterating == WeightedRun /\ pc = "w_while"

\* some step of the neighbour loop, from edge j of neis on, pushes a vertex
\* that is in the heap or was marked for this source, or decreases the key of
\* a vertex that is not in the heap
RECURSIVE C15_Misuse(_, _, _, _)
C15_Misuse(a, m, neis, j) ==
    IF j > Len(neis) THEN FALSE
    ELSE LET to == IGRAPH_OTHER(a.graph, neis[j], m.minnei)
             m2 == Weighted_Relax(a, m, neis[j])
             inheap == to \in HeapIdx(m.Q)
             pushed == m2.which[to] # m.which[to]
             modified == ~pushed /\ m2.dist[to] # m.dist[to]
         IN  \/ pushed /\ (inheap \/ m.which[to] = m.i + 1)
             \/ modified /\ ~inheap
             \/ C15_Misuse(a, m2, neis, j + 1)

\* within a source: the heap holds no vertex twice, only marked vertices,
\* under the key of their dist entry, none below the distance last popped;
\* the marked vertices are those in the heap and those popped, once each;
\* after the call: every score is the one of a call on that vertex alone
C15_State ==
    /\ C15_Iterating =>
           /\ Cardinality(HeapIdx(Q)) = Cardinality(Q)
           /\ HeapIdx(Q) \subseteq WMarked
           /\ nodes_reached + Cardinality(Q) = Cardinality(WMarked)
           /\ nodes_reached <= graph.n
           /\ \A p \in Q : -p[2] = dist[p[1]]
           /\ nodes_reached > 0 => \A p \in Q : -p[2] >= mindist
    /\ Succeeded /\ ~weights.null /\ Len(graph.edges) >= 1 =>
           \A j \in 1 .. Len(vids) :
               res[j] = igraph_closeness_estimate([Args EXCEPT !.vids = <<vids[j]>>]).res[1]

\* a pop takes a vertex of the heap at a distance not below the one popped
\* before it, and its neighbour loop misuses neither push nor decrease-key
C15_Step ==
    C15_Iterating /\ Q # {} =>
        /\ minnei' \in HeapIdx(Q)
        /\ nodes_reached > 0 => mindist' >= mindist
        /\ LET m1 == Weighted_DeleteMax(Mach, minnei')
           IN  ~Weighted_BeyondCutoff(Args, m1) =>
                   ~C15_Misuse(Args, m1, igraph_lazy_inclist_get(graph, mode, minnei'), 1)

\* C15: in the weighted engine, on weights that are all positive, within the
\* traversal of one source the distances popped never decrease, a vertex is
\* pushed only when it is neither in the heap nor already popped for this
\* source, igraph_2wheap_modify is applied only to a vertex that is in the
\* heap, and the dist entries earlier sources left change no score.
C15_HeapDiscipline == [](C15_State) /\ [][C15_Step]_vars

\* the second of two requests of vertex 0, which has two parallel edges to
\* vertex 1, the heavier first: 1 was pushed over its stale dist entry and its
\* key was then decreased
C15_Witness ==
    /\ C15_Iterating
    /\ i = 1
    /\ vids = <<0, 0>>
    /\ mode = "IGRAPH_OUT"
    /\ graph.edges = <<<<0, 1>>, <<0, 1>>>>
    /\ weights.v = <<2 * One, One>>
    /\ nodes_reached = 1
    /\ Q = {<<1, -(2 * One)>>}

====
